---- MODULE Spec2Model ----
(***************************************************************************)
(* Model of the transports of redwood (transport.go): the certificate      *)
(* substitution detector hardValidationTransport and the minimal plain     *)
(* HTTP client simpleTransport.                                            *)
(***************************************************************************)
EXTENDS Integers, Sequences, FiniteSets, TLC

VARIABLES
    t,            \* the *hardValidationTransport built by newHardValidationTransport
    hvReq,        \* the request of the last RoundTrip, as RoundTrip left it
    hvRt,         \* what the wrapped transport t.rt returned in the last RoundTrip
    hvRet,        \* what the last RoundTrip returned: [resp, err]
    hvBodyClosed, \* whether resp.Body.Close() was called by the last RoundTrip
    hvChecks      \* the checks the last RoundTrip ran, in order, with their results

VARIABLES
    stIn,         \* the request and the server's byte stream of the simpleTransport call
    stRet,        \* what simpleTransport.RoundTrip returned: [resp, err]
    stConn,       \* the dialed connection: "none", "open" or "closed"
    stN,          \* N of the io.LimitedReader behind resp.Body
    stRest,       \* bytes after the header block not yet read from the connection
    stDelivered,  \* bytes the reads on resp.Body have delivered, in order
    stReadErr     \* the error of the last read on resp.Body

VARIABLES
    ftpRet,       \* what FTPTransport.RoundTrip returned: [StatusCode, err]
    xferPc,       \* where the transfer started by ftp.GetAsync stands
    xferSignals,  \* non-terminal signals the transfer has sent on xfer.Status
    xferEnd,      \* how xfer.Status ended: "COMPLETED", "ERROR" or "closed"
    xferErr,      \* the error the transfer failed with
    xferWrote,    \* bytes the transfer has passed to Write on the pipe, in order
    pipeBuf,      \* bytes of the Write in progress the reader has not taken yet
    pipeW,        \* the pipe's writer end: "open", "closed" or "closedErr"
    pipeErr,      \* the error the writer end was closed with
    pipeCloses,   \* calls of Close and CloseWithError on the writer end
    taskPc,       \* where the goroutine started by RoundTrip stands
    taskErr,      \* err of the goroutine, received from xfer.Error
    rdDelivered,  \* bytes the reads on resp.Body have returned, in order
    rdResult      \* the error of the last read on resp.Body

VARIABLES
    scContent,    \* c.content, as the units the decoder cuts it into
    scTally0,     \* c.tally when the context was created
    scTally,      \* c.tally
    scBefore,     \* c.tally at the start of the last scanContent
    scFed,        \* the bytes the last scanContent passed to ps.scanByte, in order
    scPsTally,    \* ps.tally at the end of the last scanContent
    scScans,      \* calls of scanContent
    scScores,     \* calls of c.calculateScores
    scScored      \* c.tally as the last calculateScores saw it

VARIABLES
    gzIn,         \* the response passed to responseContent: header, body, read error
    gzOut         \* how responseContent ended and what it left behind

hvVars == <<t, hvReq, hvRt, hvRet, hvBodyClosed, hvChecks>>
stVars == <<stIn, stRet, stConn, stN, stRest, stDelivered, stReadErr>>
ftpVars == <<ftpRet, xferPc, xferSignals, xferEnd, xferErr, xferWrote, pipeBuf,
             pipeW, pipeErr, pipeCloses, taskPc, taskErr, rdDelivered, rdResult>>
scVars == <<scContent, scTally0, scTally, scBefore, scFed, scPsTally, scScans,
            scScores, scScored>>
gzVars == <<gzIn, gzOut>>
vars == <<hvVars, stVars, ftpVars, scVars, gzVars>>
\* What the steps of one component leave alone.
notHV == <<stVars, ftpVars, scVars, gzVars>>
notST == <<hvVars, ftpVars, scVars, gzVars>>
notFTP == <<hvVars, stVars, scVars, gzVars>>
notSC == <<hvVars, stVars, ftpVars, gzVars>>
notGZ == <<hvVars, stVars, ftpVars, scVars>>

\* ---------------------------------------------------------------- bounds
MaxChain == 2     \* longest certificate chain (leaf first)
MaxTail == 5      \* characters of a status line after the protocol token
MaxHeaders == 2   \* header lines of a response head
MaxBody == 3      \* bytes the server sends after the header block
MaxRead == 2      \* length of the buffer passed to a read of the body
MaxXfer == 3      \* bytes a transfer writes to the pipe
MaxSignals == 2   \* non-terminal signals on xfer.Status
MaxContent == 3   \* decoder units of a generated document
MaxScans == 2     \* calls of scanContent on one context
MaxGz == 4        \* bytes of a response body given to responseContent

\* ---------------------------------------------------------------- values
\* The nil error and the nil *http.Response (records, so that they compare
\* with the non-nil values).
Nil == [type |-> "nil", reason |-> "nil"]
NilResp == [PeerCertificates |-> <<>>]

\* RawSubjectPublicKeyInfo values; a certificate is identified by its key.
Keys == {"k1", "k2"}
Certificate == [RawSubjectPublicKeyInfo : Keys]
Chains == UNION {[1..n -> Certificate] : n \in 1..MaxChain}
Hosts == {"a.example", "b.example"}
Schemes == {"http", "https"}

\* Errors x509 Verify returns; several reasons share one dynamic type.
VerifyErrors ==
    { [type |-> "x509.UnknownAuthorityError", reason |-> "none"],
      [type |-> "x509.CertificateInvalidError", reason |-> "Expired"],
      [type |-> "x509.CertificateInvalidError", reason |-> "NotAuthorizedToSign"] }
Outcome == {Nil} \cup VerifyErrors

errCouldNotVerify == [type |-> "*errors.errorString", reason |-> "server certificate changed"]
errTransport == [type |-> "*net.OpError", reason |-> "transport"]

\* reflect.TypeOf: nil for a nil interface, else the dynamic type.
TypeOf(e) == IF e = Nil THEN "nil" ELSE e.type

sameType(a, b) == TypeOf(a) = TypeOf(b)

\* The set a CertPool holds after AddCert of every certificate of a chain.
CertPoolOf(certificates) == {certificates[i] : i \in 1..Len(certificates)}

\* x509.VerifyOptions as the code fills them: Roots is "default" when the
\* field is left nil (system roots), else the pool passed.
VerifyOptions == [Roots : {"default", "original"}, DNSName : Hosts]

\* The results of Certificate.Verify for one leaf and one intermediate pool:
\* the library is an input of the model, one result per VerifyOptions.
VerifyResults == [VerifyOptions -> Outcome]

AcceptsOnlySuccess(err, expected) == err = Nil

AcceptsAnyFailure(err, expected) == TRUE

\* A check accepts when the verification succeeds or fails with an error of
\* the dynamic type recorded at construction.
Accepts(err, expected) == err = Nil \/ sameType(err, expected)

\* newHardValidationTransport: errDefault and errOriginal are the results of
\* the two Verify calls on certificates[0].
newHardValidationTransport(serverName, certificates, errDefault, errOriginal) ==
    [ originalCertificates |-> certificates,
      originalServerName   |-> serverName,
      originalCertPool     |-> CertPoolOf(certificates),
      expectedErrDefault   |-> errDefault,
      expectedErrOriginal  |-> errOriginal ]

FastPathWholeChain(tr, resp) ==
    resp.PeerCertificates = tr.originalCertificates

\* The fast path: public key equality of the two leaves.
FastPath(tr, resp) ==
    resp.PeerCertificates[1].RawSubjectPublicKeyInfo
        = tr.originalCertificates[1].RawSubjectPublicKeyInfo

\* The pinned-name checks run whatever the request host.
CheckOrderAlwaysPinned(tr, req) ==
    <<[step |-> "default", Roots |-> "default", DNSName |-> req.Host],
      [step |-> "original", Roots |-> "original", DNSName |-> req.Host],
      [step |-> "pinnedDefault", Roots |-> "default",
       DNSName |-> tr.originalServerName],
      [step |-> "pinnedOriginal", Roots |-> "original",
       DNSName |-> tr.originalServerName]>>

\* The checks after the fast path, in the order the code runs them.
CheckOrder(tr, req) ==
    <<[step |-> "default", Roots |-> "default", DNSName |-> req.Host],
      [step |-> "original", Roots |-> "original", DNSName |-> req.Host]>>
    \o (IF req.Host # tr.originalServerName
        THEN <<[step |-> "pinnedDefault", Roots |-> "default",
                DNSName |-> tr.originalServerName],
               [step |-> "pinnedOriginal", Roots |-> "original",
                DNSName |-> tr.originalServerName]>>
        ELSE <<>>)

Expected(tr, roots) ==
    IF roots = "default" THEN tr.expectedErrDefault ELSE tr.expectedErrOriginal

\* The log of the checks run: each check of CheckOrder up to and including
\* the first that accepts.
RECURSIVE RunChecks(_, _, _, _)
RunChecks(tr, order, verify, i) ==
    IF i > Len(order) THEN <<>>
    ELSE LET c == order[i]
             err == verify[[Roots |-> c.Roots, DNSName |-> c.DNSName]]
             entry == [step |-> c.step, err |-> err]
         IN IF Accepts(err, Expected(tr, c.Roots)) THEN <<entry>>
            ELSE <<entry>> \o RunChecks(tr, order, verify, i + 1)

UpgradeScheme(req) ==
    [req EXCEPT !.Scheme = IF @ = "http" THEN "https" ELSE @]

\* RoundTrip failing open: the final return gives back a nil error.
HVRoundTripFailOpen(tr, req0, rt, verify) ==
    LET req == UpgradeScheme(req0)
        log == RunChecks(tr, CheckOrder(tr, req), verify, 1)
    IN
    IF rt.err # Nil
    THEN [req |-> req, resp |-> rt.resp, err |-> rt.err,
          bodyClosed |-> FALSE, checks |-> <<>>]
    ELSE IF FastPath(tr, rt.resp)
    THEN [req |-> req, resp |-> rt.resp, err |-> Nil,
          bodyClosed |-> FALSE, checks |-> <<>>]
    ELSE [req |-> req, resp |-> rt.resp, err |-> Nil,
          bodyClosed |-> FALSE, checks |-> log]

\* RoundTrip treating a transport failure as a trust failure.
HVRoundTripMaskFailure(tr, req0, rt, verify) ==
    LET req == UpgradeScheme(req0) IN
    IF rt.err # Nil
    THEN [req |-> req, resp |-> rt.resp, err |-> errCouldNotVerify,
          bodyClosed |-> rt.resp # NilResp, checks |-> <<>>]
    ELSE [req |-> req, resp |-> rt.resp, err |-> Nil,
          bodyClosed |-> FALSE, checks |-> <<>>]

\* hardValidationTransport.RoundTrip. rt is what t.rt.RoundTrip returns:
\* [resp, err] with resp = NilResp or [PeerCertificates]; verify gives the
\* results of the Verify calls on the presented leaf.
HVRoundTrip(tr, req0, rt, verify) ==
    LET req == UpgradeScheme(req0) IN
    IF rt.err # Nil
    THEN [req |-> req, resp |-> rt.resp, err |-> rt.err,
          bodyClosed |-> FALSE, checks |-> <<>>]
    ELSE IF FastPath(tr, rt.resp)
    THEN [req |-> req, resp |-> rt.resp, err |-> Nil,
          bodyClosed |-> FALSE, checks |-> <<>>]
    ELSE LET order == CheckOrder(tr, req)
             log == RunChecks(tr, order, verify, 1)
             last == log[Len(log)]
         IN
         IF Accepts(last.err, Expected(tr, order[Len(log)].Roots))
         THEN [req |-> req, resp |-> rt.resp, err |-> Nil,
               bodyClosed |-> FALSE, checks |-> log]
         ELSE [req |-> req, resp |-> rt.resp, err |-> errCouldNotVerify,
               bodyClosed |-> TRUE, checks |-> log]

\* ---------------------------------------------------------------- Init
NoReq == [Scheme |-> "none", Host |-> "none"]
NoRt == [resp |-> NilResp, err |-> Nil]

HVInit ==
    /\ \E serverName \in Hosts, certificates \in Chains,
          errDefault \in Outcome, errOriginal \in Outcome :
          t = newHardValidationTransport(serverName, certificates,
                                         errDefault, errOriginal)
    /\ hvReq = NoReq
    /\ hvRt = NoRt
    /\ hvRet = NoRt
    /\ hvBodyClosed = FALSE
    /\ hvChecks = <<>>

\* Requests and wrapped-transport results a call can see.
Requests == [Scheme : Schemes, Host : Hosts]
RtFailures ==
    {[resp |-> NilResp, err |-> errTransport]}
    \cup {[resp |-> [PeerCertificates |-> c], err |-> errTransport] : c \in Chains}
RtResponses == {[resp |-> [PeerCertificates |-> c], err |-> Nil] : c \in Chains}

\* No call is outstanding: the caller has let go of the previous result.
HVIdle == hvReq = NoReq

\* A call that stores the last verification error in the trust anchor.
HVRecordOverwrite(rt, r) ==
    /\ hvReq' = r.req
    /\ hvRt' = rt
    /\ hvRet' = [resp |-> r.resp, err |-> r.err]
    /\ hvBodyClosed' = r.bodyClosed
    /\ hvChecks' = r.checks
    /\ t' = IF r.checks = <<>> THEN t
            ELSE [t EXCEPT !.expectedErrDefault = r.checks[Len(r.checks)].err]
    /\ UNCHANGED notHV

HVRecord(rt, r) ==
    /\ hvReq' = r.req
    /\ hvRt' = rt
    /\ hvRet' = [resp |-> r.resp, err |-> r.err]
    /\ hvBodyClosed' = r.bodyClosed
    /\ hvChecks' = r.checks
    /\ UNCHANGED <<t, notHV>>

\* One call of RoundTrip, from the request to the return.
RoundTrip ==
    /\ HVIdle
    /\ \E req \in Requests :
        \/ \E rt \in RtFailures :
              HVRecord(rt, HVRoundTrip(t, req, rt, [o \in VerifyOptions |-> Nil]))
        \/ \E rt \in RtResponses, verify \in VerifyResults :
              HVRecord(rt, HVRoundTrip(t, req, rt, verify))

\* The caller is done with the pair RoundTrip returned; the transport is
\* ready for the next call.
ReleaseResponse ==
    /\ ~HVIdle
    /\ hvReq' = NoReq
    /\ hvRt' = NoRt
    /\ hvRet' = NoRt
    /\ hvBodyClosed' = FALSE
    /\ hvChecks' = <<>>
    /\ UNCHANGED <<t, notHV>>

\* ------------------------------------------------------ simpleTransport
\* Strings the parser cuts are sequences of one-character strings.
SeqsUpTo(S, n) == UNION {[1..k -> S] : k \in 0..n}

Digits == {"0", "1", "2", "3", "4", "5", "6", "7", "8", "9"}
DigitVal(c) ==
    CASE c = "0" -> 0 [] c = "1" -> 1 [] c = "2" -> 2 [] c = "3" -> 3
      [] c = "4" -> 4 [] c = "5" -> 5 [] c = "6" -> 6 [] c = "7" -> 7
      [] c = "8" -> 8 [] c = "9" -> 9

\* strings.IndexByte, 1-based; 0 when the byte does not occur (Go: -1).
IndexByte(s, c) ==
    IF \E i \in 1..Len(s) : s[i] = c
    THEN CHOOSE i \in 1..Len(s) : s[i] = c /\ \A j \in 1..(i - 1) : s[j] # c
    ELSE 0

\* strings.TrimLeft(s, " ")
RECURSIVE TrimLeft(_)
TrimLeft(s) == IF s # <<>> /\ Head(s) = " " THEN TrimLeft(Tail(s)) ELSE s

RECURSIVE DecimalValue(_)
DecimalValue(s) ==
    IF s = <<>> THEN 0
    ELSE 10 * DecimalValue(SubSeq(s, 1, Len(s) - 1)) + DigitVal(s[Len(s)])

\* strconv.ParseUint(s, 10, 0): digits only.
ParseUint(s) ==
    IF s = <<>> \/ \E i \in 1..Len(s) : s[i] \notin Digits
    THEN [ok |-> FALSE, val |-> 0]
    ELSE [ok |-> TRUE, val |-> DecimalValue(s)]

\* strconv.Atoi and strconv.ParseInt(s, 10, 64): an optional sign, then
\* digits (the values of the model stay far below the 64-bit range).
ParseInt(s) ==
    LET signed == s # <<>> /\ s[1] \in {"+", "-"}
        u == ParseUint(IF signed THEN Tail(s) ELSE s)
    IN IF ~u.ok THEN u
       ELSE [ok |-> TRUE, val |-> IF s[1] = "-" THEN 0 - u.val ELSE u.val]

\* http.ParseHTTPVersion
HTTPSlash == <<"H", "T", "T", "P", "/">>
ParseHTTPVersion(vers) ==
    IF Len(vers) # 8 \/ SubSeq(vers, 1, 5) # HTTPSlash \/ vers[7] # "."
    THEN [ok |-> FALSE, major |-> 0, minor |-> 0]
    ELSE LET maj == ParseUint(<<vers[6]>>)
             min == ParseUint(<<vers[8]>>)
         IN IF maj.ok /\ min.ok
            THEN [ok |-> TRUE, major |-> maj.val, minor |-> min.val]
            ELSE [ok |-> FALSE, major |-> 0, minor |-> 0]

\* textproto.CanonicalMIMEHeaderKey on the header names of the model.
HeaderNames == {"Content-Length", "content-length", "Trailer", "X-A"}
CanonicalMIMEHeaderKey(name) ==
    CASE name = "content-length" -> "Content-Length"
      [] OTHER -> name

\* textproto.Reader.ReadMIMEHeader: canonical key -> values in wire order.
RECURSIVE ValuesOf(_, _)
ValuesOf(lines, key) ==
    IF lines = <<>> THEN <<>>
    ELSE (IF CanonicalMIMEHeaderKey(Head(lines).name) = key
          THEN <<Head(lines).value>> ELSE <<>>) \o ValuesOf(Tail(lines), key)
ReadMIMEHeader(lines) ==
    [key \in {CanonicalMIMEHeaderKey(lines[i].name) : i \in 1..Len(lines)}
        |-> ValuesOf(lines, key)]

\* http.Header.Get: the first value of the key, "" (empty) when absent.
HeaderGet(h, key) == IF key \in DOMAIN h THEN h[key][1] ELSE <<>>

\* http.Header.Del
HeaderDel(h, key) == [k \in (DOMAIN h) \ {key} |-> h[k]]

HideContentLengthOnly(h) == HeaderDel(h, "Content-Length")

\* The two Del calls that end the header parsing.
HideLengthHeaders(h) == HeaderDel(HeaderDel(h, "Content-Length"), "Trailer")

\* The nil *http.Response and the response under construction.
NilSResp == [nil |-> TRUE]
NewResponse ==
    [Proto |-> <<>>, Status |-> <<>>, StatusCode |-> 0, ProtoMajor |-> 0,
     ProtoMinor |-> 0, Header |-> <<>>, ContentLength |-> 0]

\* A failed return: nil response, the connection left as it is.
STFail(e, conn) ==
    [resp |-> NilSResp, err |-> e, conn |-> conn, N |-> 0, rest |-> <<>>]

\* The status code token: the status text up to its first space.
StatusCodeOf(status) ==
    LET i == IndexByte(status, " ")
    IN IF i # 0 THEN SubSeq(status, 1, i - 1) ELSE status

LimitOffByOne(n) == n + 1

\* N of the LimitedReader built from resp.ContentLength.
BodyLimit(n) == n

\* RoundTrip dialing before it looks at the method and the scheme.
STRoundTripDialFirst(in) ==
    IF ~in.dialOK THEN STFail("error connecting", "none")
    ELSE IF in.Method # "GET" THEN STFail("method not supported", "open")
    ELSE IF in.Scheme # "http" THEN STFail("URL scheme not supported", "open")
    ELSE STFail("error sending request", "open")

\* simpleTransport.RoundTrip up to its return.
STRoundTrip(in) ==
    IF in.Method # "GET" THEN STFail("method not supported", "none")
    ELSE IF in.Scheme # "http" THEN STFail("URL scheme not supported", "none")
    ELSE IF ~in.dialOK THEN STFail("error connecting", "none")
    ELSE IF ~in.writeOK THEN STFail("error sending request", "open")
    ELSE IF in.lineErr = "EOF" THEN STFail("io.ErrUnexpectedEOF", "open")
    ELSE IF in.lineErr # "none" THEN STFail(in.lineErr, "open")
    ELSE
    LET line == in.line
        i == IndexByte(line, " ")
    IN
    IF i = 0 THEN STFail("malformed HTTP response", "open")
    ELSE
    LET proto == SubSeq(line, 1, i - 1)
        status == TrimLeft(SubSeq(line, i + 1, Len(line)))
        statusCode == StatusCodeOf(status)
        code == ParseInt(statusCode)
        version == ParseHTTPVersion(proto)
    IN
    IF Len(statusCode) # 3 THEN STFail("malformed HTTP status code", "open")
    ELSE IF ~code.ok \/ code.val < 0
    THEN STFail("malformed HTTP status code", "open")
    ELSE IF ~version.ok THEN STFail("malformed HTTP version", "open")
    ELSE IF in.hdrErr = "EOF" THEN STFail("io.ErrUnexpectedEOF", "open")
    ELSE IF in.hdrErr # "none" THEN STFail(in.hdrErr, "open")
    ELSE
    LET header == ReadMIMEHeader(in.headers)
        cl == HeaderGet(header, "Content-Length")
        n == ParseInt(cl)
    IN
    IF cl # <<>> /\ ~n.ok THEN STFail("invalid Content-Length", "open")
    ELSE
    LET contentLength == IF cl # <<>> THEN n.val ELSE NewResponse.ContentLength
    IN [resp |-> [Proto |-> proto, Status |-> status,
                  StatusCode |-> code.val,
                  ProtoMajor |-> version.major, ProtoMinor |-> version.minor,
                  Header |-> HideLengthHeaders(header),
                  ContentLength |-> contentLength],
        err |-> "nil", conn |-> "open",
        N |-> BodyLimit(contentLength), rest |-> in.body]

\* The inputs of a call: the request, the outcome of dial and write, and the
\* stream the server sends.
Chars(str) ==
    CASE str = "HTTP/1.1" -> <<"H", "T", "T", "P", "/", "1", ".", "1">>
      [] str = "HTTP/1.0" -> <<"H", "T", "T", "P", "/", "1", ".", "0">>
      [] str = "HTTP/x.1" -> <<"H", "T", "T", "P", "/", "x", ".", "1">>
      [] str = "ICY" -> <<"I", "C", "Y">>
      [] str = " 200 OK" -> <<" ", "2", "0", "0", " ", "O", "K">>
Protos == {Chars("HTTP/1.1"), Chars("HTTP/1.0"), Chars("HTTP/x.1"), Chars("ICY")}
TailAlphabet == {" ", "2", "0", "+", "-", "K"}
HeaderValues == {<<>>, <<"2">>, <<"-", "1">>, <<"x">>}
WireHeaders == [name : HeaderNames, value : HeaderValues]
Bytes == {"a", "b"}

STBaseInput ==
    [Method |-> "GET", Scheme |-> "http", dialOK |-> TRUE, writeOK |-> TRUE,
     lineErr |-> "none", line |-> Chars("HTTP/1.1") \o Chars(" 200 OK"),
     hdrErr |-> "none",
     headers |-> <<[name |-> "Content-Length", value |-> <<"2">>]>>,
     body |-> <<"a", "b">>]

\* The calls explored: every request and stream failure around the base
\* stream; every status line of a protocol token and a tail; every header
\* block and body behind a good status line.
STRequestInputs ==
    {[STBaseInput EXCEPT !.Method = m, !.Scheme = sc, !.dialOK = d,
                         !.writeOK = w, !.lineErr = le, !.hdrErr = he] :
        m \in {"GET", "POST"}, sc \in {"http", "https"}, d \in BOOLEAN,
        w \in BOOLEAN, le \in {"none", "EOF", "read error"},
        he \in {"none", "EOF", "textproto.ProtocolError"}}
STLineInput(p, tl) == [STBaseInput EXCEPT !.line = p \o tl]
STHeadInput(h, b) == [STBaseInput EXCEPT !.headers = h, !.body = b]

NoInput == [Method |-> "none"]
STIdle == stIn = NoInput

STInit ==
    /\ stIn = NoInput
    /\ stRet = [resp |-> NilSResp, err |-> "nil"]
    /\ stConn = "none"
    /\ stN = 0
    /\ stRest = <<>>
    /\ stDelivered = <<>>
    /\ stReadErr = "nil"

STRecord(in, r) ==
    /\ stIn' = in
    /\ stRet' = [resp |-> r.resp, err |-> r.err]
    /\ stConn' = r.conn
    /\ stN' = r.N
    /\ stRest' = r.rest
    /\ stDelivered' = <<>>
    /\ stReadErr' = "nil"

\* One call of simpleTransport.RoundTrip.
SimpleRoundTrip ==
    /\ STIdle
    /\ \/ \E in \in STRequestInputs : STRecord(in, STRoundTrip(in))
       \/ \E p \in Protos, k \in 0..MaxTail :
             \E tl \in [1..k -> TailAlphabet] :
                STRecord(STLineInput(p, tl), STRoundTrip(STLineInput(p, tl)))
       \/ \E i \in 0..MaxHeaders, j \in 0..MaxBody :
             \E h \in [1..i -> WireHeaders], b \in [1..j -> Bytes] :
                STRecord(STHeadInput(h, b), STRoundTrip(STHeadInput(h, b)))
    /\ UNCHANGED notST

Min(a, b) == IF a < b THEN a ELSE b

\* One Read on resp.Body with a buffer of k bytes: io.LimitedReader.Read over
\* the bufio.Reader of the connection. The reader returns between 1 and
\* len(p) bytes while the stream has some, io.EOF at the end of the stream;
\* after Close it returns bytes it had buffered or the connection's error.
BodyRead ==
    /\ stRet.resp # NilSResp
    /\ \E k \in 1..MaxRead :
        IF stN <= 0
        THEN /\ stReadErr' = "EOF"
             /\ UNCHANGED <<stN, stRest, stDelivered>>
        ELSE \/ /\ stRest = <<>>
                /\ stReadErr' = IF stConn = "closed" THEN "closed" ELSE "EOF"
                /\ UNCHANGED <<stN, stRest, stDelivered>>
             \/ /\ stRest # <<>>
                /\ stConn = "closed"
                /\ stReadErr' = "closed"
                /\ UNCHANGED <<stN, stRest, stDelivered>>
             \/ /\ stRest # <<>>
                /\ \E n \in 1..Min(Min(k, stN), Len(stRest)) :
                    /\ stDelivered' = stDelivered \o SubSeq(stRest, 1, n)
                    /\ stRest' = SubSeq(stRest, n + 1, Len(stRest))
                    /\ stN' = stN - n
                    /\ stReadErr' = "nil"
    /\ UNCHANGED <<notST, stIn, stRet, stConn>>

\* Close on resp.Body: body.Closer is the connection.
BodyClose ==
    /\ stRet.resp # NilSResp
    /\ stConn' = "closed"
    /\ UNCHANGED <<notST, stIn, stRet, stN, stRest, stDelivered, stReadErr>>

\* --------------------------------------------------------- FTPTransport
NoFtp == [StatusCode |-> 0, err |-> "none"]
FTPIdle == ftpRet = NoFtp
TransferErrors == {"E1", "E2"}

FTPInit ==
    /\ ftpRet = NoFtp
    /\ xferPc = "none"
    /\ xferSignals = 0
    /\ xferEnd = "none"
    /\ xferErr = "nil"
    /\ xferWrote = <<>>
    /\ pipeBuf = <<>>
    /\ pipeW = "open"
    /\ pipeErr = "nil"
    /\ pipeCloses = 0
    /\ taskPc = "none"
    /\ taskErr = "nil"
    /\ rdDelivered = <<>>
    /\ rdResult = "nil"

\* FTPTransport.RoundTrip: 405 for another method, the error of GetAsync,
\* or a 200 response over the pipe's read end with the goroutine started.
FTPRoundTrip ==
    /\ FTPIdle
    /\ \E method \in {"GET", "POST"}, started \in BOOLEAN :
        IF method # "GET"
        THEN /\ ftpRet' = [StatusCode |-> 405, err |-> "nil"]
             /\ UNCHANGED <<xferPc, taskPc>>
        ELSE IF ~started
        THEN /\ ftpRet' = [StatusCode |-> 0, err |-> "GetAsync"]
             /\ UNCHANGED <<xferPc, taskPc>>
        ELSE /\ ftpRet' = [StatusCode |-> 200, err |-> "nil"]
             /\ xferPc' = "run"
             /\ taskPc' = "range"
    /\ UNCHANGED <<xferSignals, xferEnd, xferErr, xferWrote, pipeBuf, pipeW,
                   pipeErr, pipeCloses, taskErr, rdDelivered, rdResult>>
    /\ UNCHANGED notFTP

\* The transfer calls Write on the pipe's writer end with a chunk; the call
\* returns when the reader has taken every byte of it.
XferWrite ==
    /\ xferPc = "run"
    /\ \E n \in 1..(MaxXfer - Len(xferWrote)) :
        \E chunk \in [1..n -> Bytes] :
            /\ pipeBuf' = chunk
            /\ xferWrote' = xferWrote \o chunk
    /\ xferPc' = "writing"
    /\ UNCHANGED <<ftpRet, xferSignals, xferEnd, xferErr, pipeW, pipeErr,
                   pipeCloses, taskPc, taskErr, rdDelivered, rdResult>>
    /\ UNCHANGED notFTP

XferWriteReturns ==
    /\ xferPc = "writing"
    /\ pipeBuf = <<>>
    /\ xferPc' = "run"
    /\ UNCHANGED <<ftpRet, xferSignals, xferEnd, xferErr, xferWrote, pipeBuf,
                   pipeW, pipeErr, pipeCloses, taskPc, taskErr, rdDelivered,
                   rdResult>>
    /\ UNCHANGED notFTP

\* One iteration of "for stat := range xfer.Status": the transfer sends a
\* signal and the goroutine receives it and switches on it.
StatusSignal ==
    /\ xferPc = "run"
    /\ taskPc = "range"
    /\ \/ /\ xferSignals < MaxSignals
          /\ xferSignals' = xferSignals + 1
          /\ UNCHANGED <<xferPc, xferEnd, xferErr, taskPc>>
       \/ /\ xferEnd' = "COMPLETED"
          /\ xferPc' = "done"
          /\ taskPc' = "completed"
          /\ UNCHANGED <<xferSignals, xferErr>>
       \/ /\ \E e \in TransferErrors : xferErr' = e
          /\ xferEnd' = "ERROR"
          /\ xferPc' = "sendError"
          /\ taskPc' = "error"
          /\ UNCHANGED xferSignals
    /\ UNCHANGED <<ftpRet, xferWrote, pipeBuf, pipeW, pipeErr, pipeCloses,
                   taskErr, rdDelivered, rdResult>>
    /\ UNCHANGED notFTP

\* The transfer closes xfer.Status without a terminal signal.
StatusClosed ==
    /\ xferPc = "run"
    /\ xferEnd' = "closed"
    /\ xferPc' = "done"
    /\ UNCHANGED <<ftpRet, xferSignals, xferErr, xferWrote, pipeBuf, pipeW,
                   pipeErr, pipeCloses, taskPc, taskErr, rdDelivered, rdResult>>
    /\ UNCHANGED notFTP

\* The range loop ends on the closed channel and the goroutine returns.
TaskRangeEnds ==
    /\ taskPc = "range"
    /\ xferEnd = "closed"
    /\ taskPc' = "done"
    /\ UNCHANGED <<ftpRet, xferPc, xferSignals, xferEnd, xferErr, xferWrote,
                   pipeBuf, pipeW, pipeErr, pipeCloses, taskErr, rdDelivered,
                   rdResult>>
    /\ UNCHANGED notFTP

\* PipeWriter.CloseWithError: the first close decides what readers see.
CloseWriter(e) ==
    /\ pipeCloses' = pipeCloses + 1
    /\ IF pipeW = "open"
       THEN /\ pipeW' = IF e = "nil" THEN "closed" ELSE "closedErr"
            /\ pipeErr' = e
       ELSE UNCHANGED <<pipeW, pipeErr>>

TaskCloseDropped ==
    /\ taskPc = "completed"
    /\ taskPc' = "done"
    /\ UNCHANGED <<pipeW, pipeErr, pipeCloses>>
    /\ UNCHANGED <<ftpRet, xferPc, xferSignals, xferEnd, xferErr, xferWrote,
                   pipeBuf, taskErr, rdDelivered, rdResult>>
    /\ UNCHANGED notFTP

\* case ftp.COMPLETED: w.Close(); return
TaskClose ==
    /\ taskPc = "completed"
    /\ CloseWriter("nil")
    /\ taskPc' = "done"
    /\ UNCHANGED <<ftpRet, xferPc, xferSignals, xferEnd, xferErr, xferWrote,
                   pipeBuf, taskErr, rdDelivered, rdResult>>
    /\ UNCHANGED notFTP

\* case ftp.ERROR: err := <-xfer.Error, the transfer sending its error.
TaskReceiveError ==
    /\ taskPc = "error"
    /\ xferPc = "sendError"
    /\ taskErr' = xferErr
    /\ taskPc' = "gotErr"
    /\ xferPc' = "done"
    /\ UNCHANGED <<ftpRet, xferSignals, xferEnd, xferErr, xferWrote, pipeBuf,
                   pipeW, pipeErr, pipeCloses, rdDelivered, rdResult>>
    /\ UNCHANGED notFTP

TaskCloseErrorAsClean ==
    /\ taskPc = "gotErr"
    /\ CloseWriter("nil")
    /\ taskPc' = "done"
    /\ UNCHANGED <<ftpRet, xferPc, xferSignals, xferEnd, xferErr, xferWrote,
                   pipeBuf, taskErr, rdDelivered, rdResult>>
    /\ UNCHANGED notFTP

\* w.CloseWithError(err); return
TaskCloseWithError ==
    /\ taskPc = "gotErr"
    /\ CloseWriter(taskErr)
    /\ taskPc' = "done"
    /\ UNCHANGED <<ftpRet, xferPc, xferSignals, xferEnd, xferErr, xferWrote,
                   pipeBuf, taskErr, rdDelivered, rdResult>>
    /\ UNCHANGED notFTP

\* One Read on resp.Body (the PipeReader) with a buffer of k bytes: the
\* close of the writer end is seen first, then the bytes of the Write in
\* progress; with neither the read waits.
FTPRead ==
    /\ ftpRet.StatusCode = 200
    /\ \E k \in 1..MaxRead :
        IF pipeW # "open"
        THEN /\ rdResult' = IF pipeW = "closed" THEN "EOF" ELSE pipeErr
             /\ UNCHANGED <<pipeBuf, rdDelivered>>
        ELSE /\ pipeBuf # <<>>
             /\ LET n == Min(k, Len(pipeBuf)) IN
                /\ rdDelivered' = rdDelivered \o SubSeq(pipeBuf, 1, n)
                /\ pipeBuf' = SubSeq(pipeBuf, n + 1, Len(pipeBuf))
             /\ rdResult' = "nil"
    /\ UNCHANGED <<ftpRet, xferPc, xferSignals, xferEnd, xferErr, xferWrote,
                   pipeW, pipeErr, pipeCloses, taskPc, taskErr>>
    /\ UNCHANGED notFTP

\* ----------------------------------------------------------- scanContent
\* A document is the sequence of units the decoder returns one per call: a
\* character, "STATE" (mahonia.STATE_ONLY: bytes consumed, no character) or
\* "TRUNC" (mahonia.NO_ROOM: the bytes left do not make a character).
Text(str) ==
    CASE str = "Hello,  World!" ->
            <<"H", "e", "l", "l", "o", ",", " ", " ", "W", "o", "r", "l", "d", "!">>
      [] str = "buy now" -> <<"b", "u", "y", " ", "n", "o", "w">>
      [] str = "Buy NOW!" -> <<"B", "u", "y", " ", "N", "O", "W", "!">>
      [] str = "a" -> <<"a">>
Units == {"a", "B", ",", " ", "é", "STATE", "TRUNC"}
Examples == {Text("Hello,  World!"), Text("buy now"), Text("Buy NOW!")}

\* decode(content): the character and the status of the next unit.
Decode(unit) ==
    CASE unit = "STATE" -> [c |-> "", status |-> "STATE_ONLY"]
      [] unit = "TRUNC" -> [c |-> "", status |-> "NO_ROOM"]
      [] OTHER -> [c |-> unit, status |-> "SUCCESS"]

\* wordRune: letters in lower case, anything else a space.
wordRune(c) ==
    CASE c \in {"a", "b", "d", "e", "h", "l", "n", "o", "r", "u", "w", "y", "é"} -> c
      [] c = "B" -> "b"
      [] c = "H" -> "h"
      [] c = "N" -> "n"
      [] c = "O" -> "o"
      [] c = "W" -> "w"
      [] OTHER -> " "

\* The bytes scanned for a rune: itself below 128, else its UTF-8 encoding.
ScanBytes(c) == IF c = "é" THEN <<"c3", "a9">> ELSE <<c>>

\* The loop treating STATE_ONLY as a character that ends a run of spaces.
RECURSIVE DecodeLoopStateBreaksRun(_, _)
DecodeLoopStateBreaksRun(content, prevRune) ==
    IF content = <<>> THEN <<>>
    ELSE LET d == Decode(Head(content))
             c == wordRune(d.c)
         IN CASE d.status = "STATE_ONLY" ->
                    DecodeLoopStateBreaksRun(Tail(content), "")
              [] d.status = "NO_ROOM" -> <<>>
              [] OTHER ->
                    IF c = " " /\ prevRune = " "
                    THEN DecodeLoopStateBreaksRun(Tail(content), prevRune)
                    ELSE ScanBytes(c) \o DecodeLoopStateBreaksRun(Tail(content), c)

\* The decode loop: the bytes passed to ps.scanByte for the rest of the
\* content, prevRune being the last rune kept.
RECURSIVE DecodeLoop(_, _)
DecodeLoop(content, prevRune) ==
    IF content = <<>> THEN <<>>
    ELSE LET d == Decode(Head(content))
             c == wordRune(d.c)
         IN CASE d.status = "STATE_ONLY" -> DecodeLoop(Tail(content), prevRune)
              [] d.status = "NO_ROOM" -> <<>>
              [] OTHER ->
                    IF c = " " /\ prevRune = " "
                    THEN DecodeLoop(Tail(content), prevRune)
                    ELSE ScanBytes(c) \o DecodeLoop(Tail(content), c)

\* Every byte scanContent passes to the scanner: the opening space, the
\* loop, the closing space.
Fed(content) == <<" ">> \o DecodeLoop(content, " ") \o <<" ">>

\* The phrase rules and what the scanner counts: the occurrences of a
\* rule's phrase between two separators in the bytes it was fed.
Rules == {"r1", "r2"}
Pattern(rule) == IF rule = "r1" THEN Text("buy now") ELSE Text("a")
Occurrences(stream, phrase) ==
    Cardinality({i \in 1..Len(stream) :
        /\ i + Len(phrase) + 1 <= Len(stream)
        /\ SubSeq(stream, i, i + Len(phrase) + 1) = <<" ">> \o phrase \o <<" ">>})
PsTally(stream) == [rule \in Rules |-> Occurrences(stream, Pattern(rule))]

MergeOverwrite(outer, inner) ==
    [rule \in Rules |-> IF inner[rule] > 0 THEN inner[rule] ELSE outer[rule]]

\* for rule, n := range ps.tally { c.tally[rule] += n }
MergeTally(outer, inner) == [rule \in Rules |-> outer[rule] + inner[rule]]

\* A context is created for one document, with the counts it has so far.
SCInitWith(content) ==
    /\ scContent = content
    /\ scTally0 \in [Rules -> 0..1]
    /\ scTally = scTally0
    /\ scBefore = scTally0
    /\ scFed = <<>>
    /\ scPsTally = [rule \in Rules |-> 0]
    /\ scScans = 0
    /\ scScores = 0
    /\ scScored = scTally0
\* No document: the context of the specifications of the transports.
SCNone == SCInitWith(<<>>) /\ scTally0 = [rule \in Rules |-> 0]

\* One call of scanContent, from the first scanByte to calculateScores.
ScanContent ==
    /\ scScans < MaxScans
    /\ LET fed == Fed(scContent)
           merged == MergeTally(scTally, PsTally(fed))
       IN /\ scFed' = fed
          /\ scPsTally' = PsTally(fed)
          /\ scBefore' = scTally
          /\ scTally' = merged
          /\ scScored' = merged
    /\ scScans' = scScans + 1
    /\ scScores' = scScores + 1
    /\ UNCHANGED <<scContent, scTally0>>
    /\ UNCHANGED notSC

\* ------------------------------------------------------- responseContent
\* A gzip stream is a header unit "GZ", one unit per content byte ("A" for
\* "a", "B" for "b") and the trailer unit "END"; "x" belongs to no stream.
GzUnits == {"GZ", "A", "B", "END", "x"}
Encodings == {"gzip", "deflate", ""}
Deflated(b) == IF b = "a" THEN "A" ELSE "B"
Inflated(u) == IF u = "A" THEN "a" ELSE "b"
GzipEncode(content) ==
    <<"GZ">> \o [i \in 1..Len(content) |-> Deflated(content[i])] \o <<"END">>

\* gzip.NewReader: fails unless the stream starts with a gzip header.
GzipNewReader(stream) ==
    IF stream # <<>> /\ Head(stream) = "GZ"
    THEN [ok |-> TRUE, rest |-> Tail(stream)]
    ELSE [ok |-> FALSE, rest |-> <<>>]

\* ioutil.ReadAll on the gzip reader: the bytes inflated up to the trailer,
\* or up to the place where the stream ends or is corrupt (an error that
\* responseContent ignores).
RECURSIVE Inflate(_)
Inflate(rest) ==
    IF rest = <<>> \/ Head(rest) \notin {"A", "B"} THEN <<>>
    ELSE <<Inflated(Head(rest))>> \o Inflate(Tail(rest))

\* responseContent on a response with the given Content-Encoding whose body
\* delivers got and then ends, with a read error when readErr.
responseContent(encoding, got, readErr) ==
    IF encoding = "gzip"
    THEN IF readErr
         THEN [status |-> "panic", content |-> <<>>, encoding |-> encoding,
               closed |-> TRUE, decoder |-> FALSE]
         ELSE IF Len(got) = 0
         THEN [status |-> "returned", content |-> <<>>, encoding |-> encoding,
               closed |-> TRUE, decoder |-> FALSE]
         ELSE LET gz == GzipNewReader(got) IN
              IF ~gz.ok
              THEN [status |-> "panic", content |-> <<>>, encoding |-> encoding,
                    closed |-> TRUE, decoder |-> FALSE]
              ELSE [status |-> "returned", content |-> Inflate(gz.rest),
                    encoding |-> "", closed |-> TRUE, decoder |-> TRUE]
    ELSE [status |-> "returned", content |-> got, encoding |-> encoding,
          closed |-> TRUE, decoder |-> FALSE]

NoGzIn == [encoding |-> "none"]
NoGzOut == [status |-> "none"]
GZInit ==
    /\ gzIn = NoGzIn
    /\ gzOut = NoGzOut

\* One call of responseContent: the body holds body and a read of it stops
\* after k bytes, at the end of the body or on a read error.
ResponseContent ==
    /\ gzOut = NoGzOut
    /\ \E encoding \in Encodings, n \in 0..MaxGz :
        \E body \in [1..n -> GzUnits], k \in 0..n, readErr \in BOOLEAN :
            /\ (~readErr => k = n)
            /\ gzIn' = [encoding |-> encoding, body |-> body,
                        got |-> SubSeq(body, 1, k), readErr |-> readErr]
            /\ gzOut' = responseContent(encoding, SubSeq(body, 1, k), readErr)
    /\ UNCHANGED notGZ

Init == HVInit /\ STInit /\ FTPInit /\ SCNone /\ GZInit
Next == RoundTrip \/ ReleaseResponse
Spec == Init /\ [][Next]_vars

\* The minimal client on its own, next to one fixed trust anchor.
InitSimple ==
    /\ t = newHardValidationTransport("a.example",
             <<[RawSubjectPublicKeyInfo |-> "k1"]>>, Nil, Nil)
    /\ hvReq = NoReq
    /\ hvRt = NoRt
    /\ hvRet = NoRt
    /\ hvBodyClosed = FALSE
    /\ hvChecks = <<>>
    /\ STInit
    /\ FTPInit
    /\ SCNone
    /\ GZInit
NextSimple == SimpleRoundTrip \/ BodyRead \/ BodyClose
SpecSimple == InitSimple /\ [][NextSimple]_vars

\* The FTP adapter on its own: the transfer, the goroutine and the reader
\* of the body run in any interleaving. Each of them takes its next step
\* when it can: goroutines that can run are scheduled, the transfer sends the
\* error it announced, and the reader keeps reading.
NextFTP ==
    \/ FTPRoundTrip \/ XferWrite \/ XferWriteReturns \/ StatusSignal
    \/ StatusClosed \/ TaskRangeEnds \/ TaskClose \/ TaskReceiveError
    \/ TaskCloseWithError \/ FTPRead
SpecFTP == InitSimple /\ [][NextFTP]_vars
\* The scanner on its own: one context per document, scanned some times.
HVFixed ==
    /\ t = newHardValidationTransport("a.example",
             <<[RawSubjectPublicKeyInfo |-> "k1"]>>, Nil, Nil)
    /\ hvReq = NoReq
    /\ hvRt = NoRt
    /\ hvRet = NoRt
    /\ hvBodyClosed = FALSE
    /\ hvChecks = <<>>
InitScan ==
    /\ HVFixed /\ STInit /\ FTPInit /\ GZInit
    /\ \/ \E content \in Examples : SCInitWith(content)
       \/ \E n \in 0..MaxContent :
             \E content \in [1..n -> Units] : SCInitWith(content)
NextScan == ScanContent
SpecScan == InitScan /\ [][NextScan]_vars

\* responseContent on its own.
NextGzip == ResponseContent
SpecGzip == InitSimple /\ [][NextGzip]_vars

SpecFTPFair ==
    /\ SpecFTP
    /\ WF_vars(XferWriteReturns)
    /\ WF_vars(TaskRangeEnds) /\ WF_vars(TaskClose)
    /\ WF_vars(TaskReceiveError) /\ WF_vars(TaskCloseWithError)
    /\ WF_vars(FTPRead)

\* ------------------------------------------------- hardValidationTransport
\* What the last call saw, read from the state.
HVCalled == ~HVIdle
HVDelivered == HVCalled /\ hvRt.err = Nil
HVAccepted == hvRet.err = Nil
HVKeyEqual ==
    hvRt.resp.PeerCertificates[1].RawSubjectPublicKeyInfo
        = t.originalCertificates[1].RawSubjectPublicKeyInfo
Category(e) == e.type
BaselineOf(step) ==
    IF step \in {"default", "pinnedDefault"}
    THEN t.expectedErrDefault ELSE t.expectedErrOriginal
CheckSucceeds(i) == hvChecks[i].err = Nil
CheckMatchesBaseline(i) ==
    Category(hvChecks[i].err) = Category(BaselineOf(hvChecks[i].step))
CheckAccepts(i) == CheckSucceeds(i) \/ CheckMatchesBaseline(i)
SomeCheckAccepted ==
    HVKeyEqual \/ \E i \in 1..Len(hvChecks) : CheckAccepts(i)
\* The check at which the last call accepted, 0 when it did not accept at one.
AcceptedAt ==
    IF HVDelivered /\ ~HVKeyEqual /\ HVAccepted THEN Len(hvChecks) ELSE 0

\* C1: a delivered response is returned with a nil error only if the fast
\* path or one of the checks run accepted; when none accepted the body has
\* been closed and the error is errCouldNotVerify.
C1_FailClosed ==
    HVDelivered =>
        /\ HVAccepted => SomeCheckAccepted
        /\ ~SomeCheckAccepted =>
              hvBodyClosed /\ hvRet.err = errCouldNotVerify
C1_Witness ==
    /\ HVDelivered /\ ~HVKeyEqual
    /\ Len(hvChecks) = 4
    /\ \A i \in 1..4 : ~CheckAccepts(i)
    /\ hvRet.err = errCouldNotVerify /\ hvBodyClosed

\* C2: a delivered response whose leaf public key equals the original
\* leaf's is returned with a nil error and an open body, whatever the rest
\* of the chain and the request host.
C2_FastPath ==
    HVDelivered /\ HVKeyEqual =>
        /\ hvRet = [resp |-> hvRt.resp, err |-> Nil]
        /\ ~hvBodyClosed
C2_Witness ==
    /\ HVDelivered /\ HVKeyEqual
    /\ hvRt.resp.PeerCertificates # t.originalCertificates
    /\ Len(hvRt.resp.PeerCertificates) = 2
    /\ hvReq.Host # t.originalServerName
    /\ HVAccepted /\ ~hvBodyClosed

\* C3 as stated: the default-root and original-pool checks accept only when
\* the category of the new outcome equals the category of the baseline.
C3_AcceptOnlyEqualCategory ==
    (AcceptedAt \in {1, 2}) => CheckMatchesBaseline(AcceptedAt)
\* C3 amended: each of the two request-host checks accepts exactly when the
\* new verification succeeds or fails with the category of the baseline; a
\* failure of another category is not accepted at that step.
C3_AcceptSuccessOrEqualCategory ==
    HVDelivered /\ ~HVKeyEqual =>
        \A i \in 1..Len(hvChecks) :
            hvChecks[i].step \in {"default", "original"} =>
                ((AcceptedAt = i) <=> CheckAccepts(i))
C3_Witness ==
    /\ HVDelivered /\ ~HVKeyEqual
    /\ Len(hvChecks) = 2
    /\ ~CheckAccepts(1)
    /\ CheckSucceeds(2) /\ t.expectedErrOriginal # Nil
    /\ HVAccepted

\* C4 as stated: a default-root failure of the baseline's category is
\* accepted; a default-root failure of another category together with an
\* original-pool outcome that differs from its baseline is rejected.
C4_SameCategoryAcceptsElseRejects ==
    HVDelivered /\ ~HVKeyEqual /\ ~CheckSucceeds(1) =>
        /\ CheckMatchesBaseline(1) => HVAccepted
        /\ (~CheckMatchesBaseline(1) /\ ~CheckMatchesBaseline(2)) =>
              hvRet.err = errCouldNotVerify
\* C4 amended: a default-root failure of the baseline's category is
\* accepted; a default-root failure of another category is rejected when
\* the original-pool check fails with a category other than its baseline's
\* and either the request host is the original server name or both
\* pinned-name checks also fail with categories other than their baselines'.
C4_SameCategoryAcceptsElseRejectsAmended ==
    HVDelivered /\ ~HVKeyEqual /\ ~CheckSucceeds(1) =>
        /\ CheckMatchesBaseline(1) => HVAccepted
        /\ ( /\ ~CheckMatchesBaseline(1)
             /\ ~CheckAccepts(2)
             /\ \/ hvReq.Host = t.originalServerName
                \/ Len(hvChecks) = 4 /\ ~CheckAccepts(3) /\ ~CheckAccepts(4) )
           => hvRet.err = errCouldNotVerify /\ hvBodyClosed
C4_Witness ==
    /\ HVDelivered /\ ~HVKeyEqual
    /\ ~CheckSucceeds(1) /\ CheckMatchesBaseline(1)
    /\ Len(hvChecks) = 1 /\ HVAccepted
C4_WitnessReject ==
    /\ HVDelivered /\ ~HVKeyEqual
    /\ hvReq.Host = t.originalServerName
    /\ Len(hvChecks) = 2 /\ ~CheckAccepts(1) /\ ~CheckAccepts(2)
    /\ hvRet.err = errCouldNotVerify

\* C5: when the wrapped transport fails, RoundTrip returns the pair the
\* wrapped transport returned, runs no check and closes no body.
C5_TransportFailurePropagates ==
    HVCalled /\ hvRt.err # Nil =>
        /\ hvRet = hvRt
        /\ hvChecks = <<>>
        /\ ~hvBodyClosed
C5_Witness ==
    /\ HVCalled /\ hvRt.err = errTransport
    /\ hvRt.resp # NilResp
    /\ hvRet = hvRt /\ ~hvBodyClosed

\* C6: no step changes the trust anchor: the five fields keep the values
\* newHardValidationTransport gave them.
C6_AnchorImmutable == [][t' = t]_vars
C6_Witness ==
    /\ HVDelivered /\ ~HVKeyEqual
    /\ Len(hvChecks) = 4 /\ HVAccepted
    /\ t.originalCertPool =
         {t.originalCertificates[i] : i \in 1..Len(t.originalCertificates)}

\* --------------------------------------------------------- simpleTransport
\* What the call saw, read from the state.
STReturned == stRet.resp # NilSResp
STLine == stIn.line
\* The call read a status line that has a space in it.
STStatusLineRead ==
    /\ ~STIdle
    /\ stIn.Method = "GET" /\ stIn.Scheme = "http"
    /\ stIn.dialOK /\ stIn.writeOK /\ stIn.lineErr = "none"
    /\ \E i \in 1..Len(STLine) : STLine[i] = " "
\* The first space-delimited token of the status text: the characters from
\* the first non-space after the first space up to the next space.
FirstAt(from, isSpace) ==
    IF \E i \in from..Len(STLine) : (STLine[i] = " ") = isSpace
    THEN CHOOSE i \in from..Len(STLine) :
            /\ (STLine[i] = " ") = isSpace
            /\ \A j \in from..(i - 1) : (STLine[j] = " ") # isSpace
    ELSE Len(STLine) + 1
STTokenStart == FirstAt(FirstAt(1, TRUE), FALSE)
STToken == SubSeq(STLine, STTokenStart, FirstAt(STTokenStart, TRUE) - 1)
ThreeDigits(tok) == Len(tok) = 3 /\ \A i \in 1..3 : tok[i] \in Digits

\* C7: a response is returned only if the first token of the status text is
\* exactly three decimal digits; every other token fails with the malformed
\* status code error and no response.
C7_StatusCodeThreeDigits ==
    STStatusLineRead =>
        /\ STReturned => ThreeDigits(STToken)
        /\ ~ThreeDigits(STToken) =>
              ~STReturned /\ stRet.err = "malformed HTTP status code"

\* The Content-Length the head carries: the value of its first header line
\* of that name, when the head has one that is a number.
IsContentLength(name) == name \in {"Content-Length", "content-length"}
STLengthLines ==
    {i \in 1..Len(stIn.headers) : IsContentLength(stIn.headers[i].name)}
STSentLength ==
    ParseInt(stIn.headers[CHOOSE i \in STLengthLines :
                              \A j \in STLengthLines : i <= j].value)
STNoContentLength == STLengthLines = {}
STContentLength == STLengthLines # {} /\ STSentLength.ok
IsPrefix(a, b) == Len(a) <= Len(b) /\ a = SubSeq(b, 1, Len(a))
Max0(n) == IF n < 0 THEN 0 ELSE n

\* C8: without a Content-Length header the body is unlimited: a read reports
\* the end of the stream only when every byte after the header block has
\* been delivered.
C8_NoContentLengthUnlimited ==
    STReturned /\ STNoContentLength /\ stReadErr = "EOF" =>
        stDelivered = stIn.body

\* C9 as stated: with Content-Length n the bytes delivered are a prefix, of
\* length at most n, of the bytes after the header block.
C9_PrefixAtMostN ==
    STReturned /\ STContentLength =>
        /\ IsPrefix(stDelivered, stIn.body)
        /\ Len(stDelivered) <= STSentLength.val
\* C9 amended: with Content-Length n the bytes delivered are a prefix, of
\* length at most max(n, 0), of the bytes after the header block; once
\* max(n, 0) bytes are delivered every read reports the end of the stream
\* and delivers nothing; closing the body closes the connection.
C9_PrefixAtMostNonNegativeN ==
    /\ [](STReturned /\ STContentLength =>
            /\ IsPrefix(stDelivered, stIn.body)
            /\ Len(stDelivered) <= Max0(STSentLength.val))
    /\ [][(/\ STReturned /\ STContentLength
           /\ Len(stDelivered) >= Max0(STSentLength.val)
           /\ BodyRead)
          => (stReadErr' = "EOF" /\ stDelivered' = stDelivered)]_vars
    /\ [][BodyClose => stConn' = "closed"]_vars
C9_Witness ==
    /\ STReturned /\ STContentLength
    /\ STSentLength.val = 2 /\ Len(stIn.body) = 3
    /\ stDelivered = SubSeq(stIn.body, 1, 2)
    /\ stReadErr = "EOF" /\ stConn = "closed"

\* C10: a returned response has neither Content-Length nor Trailer among
\* its headers, keeps the other headers, and carries the parsed length as
\* its ContentLength.
C10_LengthHeadersHidden ==
    STReturned =>
        /\ \A k \in DOMAIN stRet.resp.Header :
              k \notin {"Content-Length", "content-length", "Trailer"}
        /\ \A i \in 1..Len(stIn.headers) :
              stIn.headers[i].name = "X-A" => "X-A" \in DOMAIN stRet.resp.Header
        /\ STContentLength => stRet.resp.ContentLength = STSentLength.val
C10_Witness ==
    /\ STReturned
    /\ stIn.headers = <<[name |-> "Content-Length", value |-> <<"2">>],
                        [name |-> "Trailer", value |-> <<"x">>]>>
    /\ stRet.resp.StatusCode = 200
    /\ stRet.resp.ProtoMajor = 1 /\ stRet.resp.ProtoMinor = 1
    /\ stRet.resp.ContentLength = 2
    /\ DOMAIN stRet.resp.Header = {}
    /\ stIn.body = <<"a", "b">> /\ stDelivered = stIn.body
    /\ stReadErr = "EOF"

\* C11: a request whose method is not GET or whose scheme is not http is
\* answered with an error and no response, and no connection exists
\* afterwards: nothing was dialed, so nothing was written.
C11_RejectsWithoutNetwork ==
    ~STIdle /\ (stIn.Method # "GET" \/ stIn.Scheme # "http") =>
        /\ ~STReturned
        /\ stRet.err \in {"method not supported", "URL scheme not supported"}
        /\ stConn = "none"
C11_Witness ==
    /\ ~STIdle
    /\ stIn.Method = "GET" /\ stIn.Scheme = "https"
    /\ stIn.dialOK /\ stIn.writeOK
    /\ stRet.err = "URL scheme not supported" /\ stConn = "none"

\* C20: after a call that failed, the connection it dialed is not left
\* open: every failure after the dial closes the connection before
\* RoundTrip returns (on success the body's Close closes it).
C20_NoOpenConnectionAfterFailure ==
    ~STIdle /\ ~STReturned => stConn # "open"

\* C18: the checks run in the order default roots, original pool,
\* pinned-name default roots, pinned-name original pool, after a failed fast
\* path and up to the first that accepts; the pinned-name checks run exactly
\* when the request host differs from originalServerName and both
\* request-host checks failed; with the request host equal to
\* originalServerName the decision is that of the fast path and the two
\* request-host checks.
CheckSteps == <<"default", "original", "pinnedDefault", "pinnedOriginal">>
C18_CheckOrderAndPinnedRetry ==
    HVDelivered =>
        /\ Len(hvChecks) <= 4
        /\ \A i \in 1..Len(hvChecks) : hvChecks[i].step = CheckSteps[i]
        /\ HVKeyEqual <=> hvChecks = <<>>
        /\ \A i \in 1..(Len(hvChecks) - 1) : ~CheckAccepts(i)
        /\ HVAccepted <=>
              (HVKeyEqual \/ CheckAccepts(Len(hvChecks)))
        /\ Len(hvChecks) > 2 <=>
              /\ hvReq.Host # t.originalServerName
              /\ ~HVKeyEqual
              /\ ~CheckAccepts(1) /\ ~CheckAccepts(2)
        /\ (~HVAccepted /\ hvReq.Host # t.originalServerName) =>
              Len(hvChecks) = 4
        /\ hvReq.Host = t.originalServerName =>
              (HVAccepted <=>
                  \/ HVKeyEqual
                  \/ CheckAccepts(1)
                  \/ Len(hvChecks) = 2 /\ CheckAccepts(2))
C18_Witness ==
    /\ HVDelivered /\ ~HVKeyEqual
    /\ hvReq.Host # t.originalServerName
    /\ Len(hvChecks) = 4
    /\ ~CheckAccepts(1) /\ ~CheckAccepts(2) /\ ~CheckAccepts(3)
    /\ CheckAccepts(4) /\ HVAccepted

\* ------------------------------------------------------------ FTPTransport
\* C12: after COMPLETED the reader has received, in write order and without
\* loss or duplication, every byte the transfer wrote, and it then reads a
\* clean end of stream; a clean end of stream is read in no other case.
C12_CompletedDeliversAllThenEOF ==
    /\ [](IsPrefix(rdDelivered, xferWrote))
    /\ [](xferEnd = "COMPLETED" => rdDelivered = xferWrote)
    /\ [](rdResult = "EOF" =>
            xferEnd = "COMPLETED" /\ rdDelivered = xferWrote)
    /\ (xferEnd = "COMPLETED" ~> rdResult = "EOF")
C12_Witness ==
    /\ xferEnd = "COMPLETED" /\ rdResult = "EOF"
    /\ Len(xferWrote) = 3 /\ rdDelivered = xferWrote
    /\ xferSignals > 0 /\ pipeCloses = 1

\* C13: after ERROR with error E the goroutine receives E from xfer.Error
\* and closes the writer end with E; a reader that keeps reading receives E
\* and never a clean end of stream.
C13_ErrorReachesReader ==
    /\ [](xferEnd = "ERROR" => rdResult # "EOF")
    /\ [](xferEnd = "ERROR" /\ taskPc = "done" =>
            taskErr = xferErr /\ pipeW = "closedErr" /\ pipeErr = xferErr)
    /\ (xferEnd = "ERROR" ~> rdResult = xferErr)
C13_Witness ==
    /\ xferEnd = "ERROR" /\ xferErr = "E2"
    /\ rdResult = "E2" /\ rdDelivered # <<>>
    /\ taskPc = "done"

\* C14: when the goroutine has terminated it has closed the pipe's writer
\* end exactly once, whatever way xfer.Status ended (COMPLETED, ERROR or the
\* stream ending).
C14_TerminatedTaskClosedOnce ==
    taskPc = "done" => pipeCloses = 1 /\ pipeW # "open"

\* ------------------------------------------------------------- scanContent
Scanned == scScans > 0
Last(s) == s[Len(s)]
NoDoubleSeparator(s) == \A i \in 1..(Len(s) - 1) : ~(s[i] = " " /\ s[i + 1] = " ")

\* C16: the bytes fed to the scanner start with one separator, end with one
\* separator and never hold two separators in a row; "Hello,  World!" is
\* fed as " hello world ".
C16_SingleSeparators ==
    Scanned =>
        /\ Head(scFed) = " " /\ Last(scFed) = " "
        /\ NoDoubleSeparator(scFed)
        /\ scContent = Text("Hello,  World!") =>
              scFed = <<" ", "h", "e", "l", "l", "o", " ",
                        "w", "o", "r", "l", "d", " ">>

\* C17: after every scanContent each rule's count is its count before the
\* call plus the count of the scanner in that call, so k scans of a document
\* add k times its count (1 per scan for "buy now" and rule r1); no count
\* goes down; calculateScores ran once per call, on the merged tally.
C17_TallyMergeAdditive ==
    /\ \A rule \in Rules :
          /\ scTally[rule] = scBefore[rule] + scPsTally[rule]
          /\ scTally[rule] = scTally0[rule] + scScans * scPsTally[rule]
          /\ scTally[rule] >= scBefore[rule] /\ scBefore[rule] >= scTally0[rule]
    /\ Scanned /\ scContent = Text("buy now") => scPsTally["r1"] = 1
    /\ scScores = scScans
    /\ scScored = scTally
C17_Witness ==
    /\ scScans = 2 /\ scContent = Text("buy now")
    /\ scTally0["r1"] = 1 /\ scTally["r1"] = 3
    /\ scScores = 2

\* The part of a document the decoder turns into characters: the units
\* before the first TRUNC, without the STATE units.
RECURSIVE DecodedPart(_)
DecodedPart(content) ==
    IF content = <<>> \/ Head(content) = "TRUNC" THEN <<>>
    ELSE IF Head(content) = "STATE" THEN DecodedPart(Tail(content))
    ELSE <<Head(content)>> \o DecodedPart(Tail(content))

\* C19: a scan of a document is the scan of its decoded part: nothing after
\* a truncation is fed, STATE units feed nothing and do not split or join
\* runs of separators; the closing separator is fed, the counts are merged
\* and the scores calculated all the same.
C19_TruncationStopsStateSkips ==
    Scanned =>
        /\ scFed = Fed(DecodedPart(scContent))
        /\ Last(scFed) = " "
        /\ \A rule \in Rules :
              scTally[rule] = scBefore[rule] + PsTally(scFed)[rule]
        /\ scScores = scScans /\ scScored = scTally
C19_Witness ==
    /\ Scanned
    /\ scContent = <<"a", "TRUNC", "a">>
    /\ scFed = <<" ", "a", " ">>
    /\ scTally["r2"] = scBefore["r2"] + 1
    /\ scScores = scScans
C19_WitnessState ==
    /\ Scanned
    /\ scContent = <<",", "STATE", " ">>
    /\ scFed = <<" ", " ">>

\* --------------------------------------------------------- responseContent
\* C15: when Content-Encoding is gzip and responseContent returns, the
\* header has been removed and the bytes returned are the decompressed
\* content: the original bytes for a whole gzip stream, no bytes (and no
\* decompressor) for an empty body.
C15_GzipDecodedHeaderRemoved ==
    gzOut.status = "returned" /\ gzIn.encoding = "gzip" =>
        /\ gzOut.encoding = ""
        /\ \A n \in 0..MaxGz : \A content \in [1..n -> Bytes] :
              gzIn.body = GzipEncode(content) => gzOut.content = content
        /\ gzIn.body = <<>> => gzOut.content = <<>> /\ ~gzOut.decoder
====
